---- MODULE Spec2Model ----
(***************************************************************************)
(* Model of the URL shortener front end, src/frontend/src/App.js: the App  *)
(* component's state, its startup load of the history, the persistence     *)
(* effect, the validators, handleSubmit (the synchronous part up to the    *)
(* fetch, and the continuation that runs when the fetch settles) and       *)
(* handleClearHistory.                                                     *)
(*                                                                         *)
(* Strings the code inspects character by character (the form fields, a    *)
(* string the server sends as expiry) are sequences of one-character       *)
(* strings.  Messages, which the code only tests for emptiness and copies,  *)
(* are TLA+ strings.                                                       *)
(***************************************************************************)
EXTENDS Integers, Sequences, FiniteSets, TLC

(***************************************************************************)
(* Bounds of the model and constants of the program.                       *)
(***************************************************************************)
MaxSubmits == 1         \* submissions recorded or waiting for their fetch
T0 == 1000              \* the first reading of the clock (scaled epoch ms)

HistoryCap == 20        \* App.js:104  .slice(0, 20)
DefaultValidity == 30   \* App.js:44   return 30
MsPerMinute == 60 * 1000 \* App.js:97  minutes * 60 * 1000

(***************************************************************************)
(* JavaScript values that are not always strings: a tagged record with the *)
(* same fields whatever the type.  A finite non-integer number keeps no    *)
(* value (the code only asks Number.isInteger of it).                      *)
(***************************************************************************)
JsVal(t, n, s) == [type |-> t, num |-> n, str |-> s]
Undefined == JsVal("undefined", 0, <<>>)
JsNull == JsVal("null", 0, <<>>)
NaN == JsVal("NaN", 0, <<>>)
Infinity == JsVal("Infinity", 0, <<>>)
Fraction == JsVal("fraction", 0, <<>>)
Num(n) == JsVal("number", n, <<>>)
Str(s) == JsVal("string", 0, s)

\* ToBoolean, as used by ||, && and the conditional operator
Truthy(v) ==
    CASE v.type = "number" -> v.num # 0
      [] v.type = "string" -> v.str # <<>>
      [] v.type \in {"Infinity", "fraction"} -> TRUE
      [] OTHER -> FALSE

\* a || b
OrElse(a, b) == IF Truthy(a) THEN a ELSE b

(***************************************************************************)
(* String.prototype.trim                                                   *)
(***************************************************************************)
WhiteSpace == {" ", "\t", "\n"}

RECURSIVE TrimStart(_)
TrimStart(s) ==
    IF s # <<>> /\ Head(s) \in WhiteSpace THEN TrimStart(Tail(s)) ELSE s

RECURSIVE TrimEnd(_)
TrimEnd(s) ==
    IF s # <<>> /\ s[Len(s)] \in WhiteSpace
    THEN TrimEnd(SubSeq(s, 1, Len(s) - 1))
    ELSE s

Trim(s) == TrimEnd(TrimStart(s))

(***************************************************************************)
(* Number(string): StringToNumber of ECMAScript.  Decimal literals with    *)
(* sign, fraction and exponent, Infinity, and the 0x / 0o / 0b integer     *)
(* literals; anything else is NaN; the empty string is 0.                  *)
(***************************************************************************)
DigitChars == <<"0", "1", "2", "3", "4", "5", "6", "7", "8", "9",
                "a", "b", "c", "d", "e", "f">>
UpperChars == <<"A", "B", "C", "D", "E", "F", "G", "H", "I", "J", "K", "L", "M",
                "N", "O", "P", "Q", "R", "S", "T", "U", "V", "W", "X", "Y", "Z">>
LowerChars == <<"a", "b", "c", "d", "e", "f", "g", "h", "i", "j", "k", "l", "m",
                "n", "o", "p", "q", "r", "s", "t", "u", "v", "w", "x", "y", "z">>

IndexIn(c, seq) ==
    IF \E i \in 1..Len(seq) : seq[i] = c
    THEN CHOOSE i \in 1..Len(seq) : seq[i] = c
    ELSE 0

ToLower(c) == IF IndexIn(c, UpperChars) > 0 THEN LowerChars[IndexIn(c, UpperChars)] ELSE c

\* value of c as a digit of the radix, or -1
DigitVal(c, radix) ==
    LET i == IndexIn(ToLower(c), DigitChars)
    IN  IF i > 0 /\ i <= radix THEN i - 1 ELSE 0 - 1

AllDigits(s, radix) == \A i \in 1..Len(s) : DigitVal(s[i], radix) >= 0

RECURSIVE Pow(_, _)
Pow(b, e) == IF e <= 0 THEN 1 ELSE b * Pow(b, e - 1)

RECURSIVE DigitsValue(_, _)
DigitsValue(s, radix) ==
    IF s = <<>> THEN 0
    ELSE DigitsValue(SubSeq(s, 1, Len(s) - 1), radix) * radix + DigitVal(s[Len(s)], radix)

\* position of the first character of s that is in cs, or 0
FirstOf(s, cs) ==
    IF \E i \in 1..Len(s) : s[i] \in cs
    THEN CHOOSE i \in 1..Len(s) : s[i] \in cs /\ \A j \in 1..(i - 1) : s[j] \notin cs
    ELSE 0

Negate(v) == IF v.type = "number" THEN Num(0 - v.num) ELSE v

\* an unsigned decimal literal: digits [. digits] [e [sign] digits]
UnsignedDecimal(s) ==
    LET ePos == FirstOf(s, {"e", "E"})
        mant == IF ePos = 0 THEN s ELSE SubSeq(s, 1, ePos - 1)
        expo == IF ePos = 0 THEN <<>> ELSE SubSeq(s, ePos + 1, Len(s))
        eNeg == expo # <<>> /\ Head(expo) = "-"
        eDig == IF expo # <<>> /\ Head(expo) \in {"+", "-"} THEN Tail(expo) ELSE expo
        dot == FirstOf(mant, {"."})
        ip == IF dot = 0 THEN mant ELSE SubSeq(mant, 1, dot - 1)
        fp == IF dot = 0 THEN <<>> ELSE SubSeq(mant, dot + 1, Len(mant))
        wellFormed ==
            /\ ip \o fp # <<>>
            /\ AllDigits(ip, 10) /\ AllDigits(fp, 10)
            /\ ePos # 0 => (eDig # <<>> /\ AllDigits(eDig, 10))
        m == DigitsValue(ip \o fp, 10)
        k == (IF eNeg THEN 0 - DigitsValue(eDig, 10) ELSE DigitsValue(eDig, 10)) - Len(fp)
    IN  IF ~wellFormed THEN NaN
        ELSE IF k >= 0 THEN Num(m * Pow(10, k))
        ELSE IF m % Pow(10, 0 - k) = 0 THEN Num(m \div Pow(10, 0 - k))
        ELSE Fraction

InfinityChars == <<"I", "n", "f", "i", "n", "i", "t", "y">>

StringToNumber(raw) ==
    LET s == Trim(raw)
        radix == IF Len(s) >= 2 /\ s[1] = "0"
                 THEN CASE ToLower(s[2]) = "x" -> 16
                        [] ToLower(s[2]) = "o" -> 8
                        [] ToLower(s[2]) = "b" -> 2
                        [] OTHER -> 10
                 ELSE 10
        signed == s # <<>> /\ Head(s) \in {"+", "-"}
        body == IF signed THEN Tail(s) ELSE s
        v == IF body = InfinityChars THEN Infinity ELSE UnsignedDecimal(body)
    IN  IF s = <<>> THEN Num(0)
        ELSE IF radix # 10
        THEN IF Len(s) > 2 /\ AllDigits(SubSeq(s, 3, Len(s)), radix)
             THEN Num(DigitsValue(SubSeq(s, 3, Len(s)), radix))
             ELSE NaN
        ELSE IF signed /\ Head(s) = "-" THEN Negate(v) ELSE v

\* Number(v) for the values a JSON body can hold under a key
ToNumber(v) ==
    CASE v.type = "string" -> StringToNumber(v.str)
      [] v.type = "undefined" -> NaN
      [] v.type = "null" -> Num(0)
      [] OTHER -> v

(***************************************************************************)
(* isValidHttpUrl: new URL(value) without a base, then the protocol test.  *)
(* The parse fails without a scheme; for http and https it also fails on   *)
(* an empty host, a forbidden host character or a port that is no number.  *)
(***************************************************************************)
IsAlpha(c) == IndexIn(ToLower(c), LowerChars) > 0
IsSchemeChar(c) == IsAlpha(c) \/ DigitVal(c, 10) >= 0 \/ c \in {"+", "-", "."}
ForbiddenHostChars == {" ", "<", ">", "^", "|", "[", "]", "%"}

RECURSIVE SkipSlashes(_)
SkipSlashes(s) ==
    IF s # <<>> /\ Head(s) \in {"/", "\\"} THEN SkipSlashes(Tail(s)) ELSE s

\* the host and port of a special URL's authority are acceptable
HostOk(auth) ==
    LET at == IF \E i \in 1..Len(auth) : auth[i] = "@"
              THEN CHOOSE i \in 1..Len(auth) :
                       auth[i] = "@" /\ \A j \in (i + 1)..Len(auth) : auth[j] # "@"
              ELSE 0
        hp == SubSeq(auth, at + 1, Len(auth))
        colon == FirstOf(hp, {":"})
        host == IF colon = 0 THEN hp ELSE SubSeq(hp, 1, colon - 1)
        port == IF colon = 0 THEN <<>> ELSE SubSeq(hp, colon + 1, Len(hp))
    IN  /\ host # <<>>
        /\ \A i \in 1..Len(host) : host[i] \notin ForbiddenHostChars
        /\ AllDigits(port, 10)

\* new URL(value): [ok, protocol]; protocol is the lower-cased scheme and ":"
ParseUrl(value) ==
    LET s == SelectSeq(Trim(value), LAMBDA c : c \notin {"\t", "\n"})
        colon == FirstOf(s, {":"})
        scheme == IF colon = 0 THEN <<>> ELSE SubSeq(s, 1, colon - 1)
        protocol == [i \in 1..Len(scheme) |-> ToLower(scheme[i])] \o <<":">>
        rest == IF colon = 0 THEN <<>> ELSE SkipSlashes(SubSeq(s, colon + 1, Len(s)))
        stop == FirstOf(rest, {"/", "\\", "?", "#"})
        auth == IF stop = 0 THEN rest ELSE SubSeq(rest, 1, stop - 1)
        hasScheme ==
            /\ scheme # <<>>
            /\ IsAlpha(scheme[1])
            /\ \A i \in 1..Len(scheme) : IsSchemeChar(scheme[i])
        special == protocol \in {<<"h", "t", "t", "p", ":">>, <<"h", "t", "t", "p", "s", ":">>}
    IN  [ok |-> hasScheme /\ (special => HostOk(auth)), protocol |-> protocol]

isValidHttpUrl(value) ==
    LET u == ParseUrl(value)
    IN  u.ok /\ u.protocol \in {<<"h", "t", "t", "p", ":">>, <<"h", "t", "t", "p", "s", ":">>}

(***************************************************************************)
(* parseValidityOrDefault: 30 for a blank field, the parsed number when it *)
(* is an integer greater than 0, null otherwise.                           *)
(***************************************************************************)
parseValidityOrDefault(value) ==
    IF value = <<>> \/ Trim(value) = <<>>
    THEN Num(DefaultValidity)
    ELSE LET parsed == StringToNumber(Trim(value))
         IN  IF parsed.type # "number" \/ parsed.num <= 0 THEN JsNull ELSE parsed

(***************************************************************************)
(* The values the model draws its inputs from.                             *)
(***************************************************************************)
UrlHttp == <<"h", "t", "t", "p", ":", "/", "/", "x">>
UrlFtp == <<"f", "t", "p", ":", "/", "/", "x">>

\* what the user can type in the three fields
UrlPadded == <<" ">> \o UrlHttp \o <<" ">>
LongUrlInputs == {<<>>, <<" ">>, UrlPadded, UrlFtp}
AliasInputs == {<<>>, <<" ">>, <<" ", "a", " ">>}
ValidityInputs == {<<>>, <<" ", "5", " ">>, <<"0">>}

\* the contents of the form the model explores, <<long URL, alias, validity>>:
\* each way a field can be wrong alone, two wrong fields at once for the order
\* of the checks, and each kind of alias and validity with a valid URL
Forms ==
    {<<lu, <<>>, vm>> : lu \in LongUrlInputs, vm \in {<<>>, <<"0">>}}
    \cup {<<UrlPadded, al, vm>> : al \in AliasInputs, vm \in {<<>>, <<" ", "5", " ">>}}

\* the forms explored together with every answer of the server: a valid URL
\* with the default and with a given validity, and with an alias
ServerForms ==
    {<<<<>>, <<>>, <<>>>>, <<UrlPadded, <<>>, <<>>>>,
     <<UrlPadded, <<>>, <<" ", "5", " ">>>>, <<UrlPadded, <<" ", "a", " ">>, <<>>>>}

\* texts of the validity field: blank ones, whole numbers, zero, a negative
\* number, fractions, words, and the other notations Number() reads
ValidityTexts ==
    {<<>>, <<" ", " ">>, <<"1", "5">>, <<" ", "7", " ">>, <<"0">>, <<"-", "5">>,
     <<"2", ".", "5">>, <<"a", "b", "c">>, <<"2", ".", "0">>, <<"1", "e", "2">>,
     <<"0", "x", "1", "0">>}

\* the forms explored together with every text of the validity field
ValidityForms ==
    {<<lu, <<>>, vm>> : lu \in {<<>>, UrlPadded}, vm \in ValidityTexts}
    \cup {<<UrlPadded, <<" ", "a", " ">>, <<>>>>}

\* the messages of the code
MsgMissingUrl == "Please enter a URL to shorten."
MsgInvalidUrl == "Please enter a valid http(s) URL."
MsgInvalidValidity == "Validity must be a positive integer (minutes)."
MsgHttpFallback == "Failed to shorten URL"
MsgUnexpected == "Unexpected response from server."
MsgGeneric == "Something went wrong"

\* what the server can answer
Short1 == Str(<<"s", "1">>)
Short2 == Str(<<"s", "2">>)
Short3 == Str(<<"s", "3">>)
Stamp1 == Num(5000000)
Stamp2 == Num(7000000)

Data(su, s_u, s, ea, e_a) ==
    [shortUrl |-> su, short_url |-> s_u, short |-> s, expiresAt |-> ea, expires_at |-> e_a]
NoData == Data(Undefined, Undefined, Undefined, Undefined, Undefined)

\* JSON bodies of a success response: every combination of the three short
\* URL keys without an expiry, and every combination of the two expiry keys
\* with one short URL
JsonBodies ==
    {Data(su, s_u, s, Undefined, Undefined) :
        su \in {Undefined, Str(<<>>), Short1},
        s_u \in {Undefined, Short2},
        s \in {Undefined, Short3}}
    \cup
    {Data(Short1, Undefined, Undefined, ea, e_a) :
        ea \in {Undefined, JsNull, Num(0), Stamp1, Str(<<"s", "o", "o", "n">>)},
        e_a \in {Undefined, Stamp2}}

Response(k, m, t, d) == [kind |-> k, message |-> m, text |-> t, data |-> d]

\* how a fetch can settle: the fetch (or the read of the body) rejects with an
\* error of some message; a non-success status with a text body; a success
\* status whose body is not JSON; a success status with a JSON body
Responses ==
    {Response("reject", m, "", NoData) : m \in {"", "Failed to fetch"}}
    \cup {Response("notOk", "", t, NoData) : t \in {"", "alias taken"}}
    \cup {Response("okNotJson", "Unexpected token < in JSON at position 0", "", NoData)}
    \cup {Response("ok", "", "", d) : d \in JsonBodies}

\* one response for each way the code after the fetch can end
CoreResponses ==
    {Response("reject", "Failed to fetch", "", NoData),
     Response("reject", "", "", NoData),
     Response("notOk", "", "", NoData),
     Response("notOk", "", "alias taken", NoData),
     Response("okNotJson", "Unexpected token < in JSON at position 0", "", NoData),
     Response("ok", "", "", NoData),
     Response("ok", "", "", Data(Short1, Undefined, Undefined, Undefined, Undefined)),
     Response("ok", "", "", Data(Short1, Undefined, Undefined, Stamp1, Undefined))}

(***************************************************************************)
(* The history collection and its persisted form.                          *)
(***************************************************************************)
Entry(lu, su, ca, ea, vm) ==
    [longUrl |-> lu, shortUrl |-> su, createdAt |-> ca, expiresAt |-> ea,
     validityMinutes |-> vm]

\* an entry of an earlier session, the i-th newest
OldEntry(i) == Entry(UrlHttp, Str(<<"s", "0">>), T0 - i, Num(T0 - i + MsPerMinute), 1)
OldHistory(n) == [i \in 1..n |-> OldEntry(i)]

\* JSON.stringify of a number: NaN and the infinities become null
NumberToJSON(v) == IF v.type \in {"NaN", "Infinity"} THEN JsNull ELSE v

\* the value under the key 'url_history': absent, text that is no JSON, or the
\* JSON text of an array of entries or of something that is no array
Blob(f, a, items) == [form |-> f, isArray |-> a, items |-> items]
BlobMissing == Blob("missing", FALSE, <<>>)
BlobMalformed == Blob("malformed", FALSE, <<>>)
BlobNull == Blob("json", FALSE, <<>>)

\* JSON.stringify(history)
Stringify(h) ==
    Blob("json", TRUE,
         [i \in 1..Len(h) |-> [h[i] EXCEPT !.expiresAt = NumberToJSON(@)]])

\* the initial state of history, App.js:12-19: what the startup load returns
Load(blob, mode) ==
    IF mode = "denied" THEN [isArray |-> TRUE, items |-> <<>>]
    ELSE IF blob.form = "missing" THEN [isArray |-> TRUE, items |-> <<>>]
    ELSE IF blob.form = "malformed" THEN [isArray |-> TRUE, items |-> <<>>]
    ELSE [isArray |-> blob.isArray, items |-> blob.items]

\* the effect of App.js:25-31: setItem, whose failure is ignored
Persist(h, blob, mode) == IF mode = "ok" THEN Stringify(h) ELSE blob

\* seq.slice(0, end), and the update of App.js:101-104
Slice(seq, end) == SubSeq(seq, 1, IF Len(seq) < end THEN Len(seq) ELSE end)

\* Record with .slice(-20): the newest entries of the tail are kept instead
Record_KeepsTail(entry, prev) ==
    LET all == <<entry>> \o prev
    IN  SubSeq(all, IF Len(all) > HistoryCap THEN Len(all) - HistoryCap + 1 ELSE 1, Len(all))

\* Record that replaces the history by the new entry, as an update computed
\* from a history read before the await would for a history that was empty
Record_DropsPrev(entry, prev) == <<entry>>

Record(entry, prev) == Slice(<<entry>> \o prev, HistoryCap)

\* the store the page starts with: whether localStorage works ("ok") or throws
\* on every access ("denied"), and the blob under the key
InitialStores ==
    {<<"ok", b>> : b \in {BlobMissing, BlobMalformed, BlobNull,
                          Stringify(OldHistory(HistoryCap)),
                          Stringify(OldHistory(HistoryCap + 1))}}
    \cup {<<"denied", Stringify(OldHistory(HistoryCap))>>}

(***************************************************************************)
(* State.                                                                  *)
(***************************************************************************)
\* Payload that sets the alias key whatever the field holds
Payload_AlwaysAlias(lu, al, minutes) ==
    [url |-> Trim(lu), validity |-> minutes, hasAlias |-> TRUE, alias |-> Trim(al)]

\* the body of the request, App.js:76-77; hasAlias is the presence of the key
Payload(lu, al, minutes) ==
    [url |-> Trim(lu), validity |-> minutes, hasAlias |-> Trim(al) # <<>>,
     alias |-> IF Trim(al) # <<>> THEN Trim(al) ELSE <<>>]

\* what a call keeps across the await: the field it read and the minutes
Request(lu, al, minutes) ==
    [longUrl |-> lu, minutes |-> minutes, payload |-> Payload(lu, al, minutes)]

VARIABLES
    phase,            \* "unmounted", "running", or "crashed" (a render threw)
    storageMode,      \* how localStorage behaves in this session
    storage,          \* the blob under 'url_history'
    longUrl,          \* the three form fields
    alias,
    validityMinutes,
    isLoading,
    errorMessage,
    shortUrl,
    expiresAt,
    history,
    inflight,         \* the fetches not yet settled, each with what its
                      \* handleSubmit call captured
    now               \* what the next Date.now() returns

vars == <<phase, storageMode, storage, longUrl, alias, validityMinutes, isLoading,
          errorMessage, shortUrl, expiresAt, history, inflight, now>>

Init ==
    /\ phase = "unmounted"
    /\ \E st \in InitialStores : storageMode = st[1] /\ storage = st[2]
    /\ longUrl = <<>>
    /\ alias = <<>>
    /\ validityMinutes = <<>>
    /\ isLoading = FALSE
    /\ errorMessage = ""
    /\ shortUrl = Str(<<>>)
    /\ expiresAt = JsNull
    /\ history = <<>>
    /\ inflight = <<>>
    /\ now = T0

(***************************************************************************)
(* Mount: the first render.  history starts as what the load returns; the  *)
(* render reads history.length and history.map, which throw or are missing *)
(* when the value is no array, and then nothing is mounted; otherwise the  *)
(* effect runs once and writes the history back.                           *)
(***************************************************************************)
Mount ==
    /\ phase = "unmounted"
    /\ LET loaded == Load(storage, storageMode)
       IN  IF loaded.isArray
           THEN /\ phase' = "running"
                /\ history' = loaded.items
                /\ storage' = Persist(loaded.items, storage, storageMode)
           ELSE /\ phase' = "crashed"
                /\ UNCHANGED <<history, storage>>
    /\ UNCHANGED <<storageMode, longUrl, alias, validityMinutes, isLoading,
                   errorMessage, shortUrl, expiresAt, inflight, now>>

\* the onChange handlers of the three fields
SetLongUrl(v) ==
    /\ phase = "running"
    /\ longUrl' = v
    /\ UNCHANGED <<phase, storageMode, storage, alias, validityMinutes, isLoading,
                   errorMessage, shortUrl, expiresAt, history, inflight, now>>

SetAlias(v) ==
    /\ phase = "running"
    /\ alias' = v
    /\ UNCHANGED <<phase, storageMode, storage, longUrl, validityMinutes, isLoading,
                   errorMessage, shortUrl, expiresAt, history, inflight, now>>

SetValidityMinutes(v) ==
    /\ phase = "running"
    /\ validityMinutes' = v
    /\ UNCHANGED <<phase, storageMode, storage, longUrl, alias, isLoading,
                   errorMessage, shortUrl, expiresAt, history, inflight, now>>

(***************************************************************************)
(* handleSubmit, App.js:53-111.  The part before the fetch is one step:    *)
(* it clears the previous error and result, validates, and either ends     *)
(* with a message or sets the busy flag and issues the request.            *)
(***************************************************************************)
\* ValidationError testing the field without trimming it
ValidationError_NoTrim(lu, vm) ==
    IF lu = <<>> THEN MsgMissingUrl
    ELSE IF ~isValidHttpUrl(Trim(lu)) THEN MsgInvalidUrl
    ELSE IF parseValidityOrDefault(vm) = JsNull THEN MsgInvalidValidity
    ELSE ""

\* ValidationError resolving the validity before it looks at the URL
ValidationError_ValidityFirst(lu, vm) ==
    IF Trim(lu) = <<>> THEN MsgMissingUrl
    ELSE IF parseValidityOrDefault(vm) = JsNull THEN MsgInvalidValidity
    ELSE IF ~isValidHttpUrl(Trim(lu)) THEN MsgInvalidUrl
    ELSE ""

\* the message of the first check that fails (App.js:59-72), "" when none does
ValidationError(lu, vm) ==
    IF Trim(lu) = <<>> THEN MsgMissingUrl
    ELSE IF ~isValidHttpUrl(Trim(lu)) THEN MsgInvalidUrl
    ELSE IF parseValidityOrDefault(vm) = JsNull THEN MsgInvalidValidity
    ELSE ""

\* handleSubmit that clears the previous error and result only once the
\* fields have passed the checks
handleSubmit_ClearsAfterChecks ==
    /\ phase = "running"
    /\ errorMessage' = ValidationError(longUrl, validityMinutes)
    /\ IF ValidationError(longUrl, validityMinutes) # ""
       THEN UNCHANGED <<isLoading, inflight, shortUrl, expiresAt>>
       ELSE /\ shortUrl' = Str(<<>>)
            /\ expiresAt' = JsNull
            /\ isLoading' = TRUE
            /\ inflight' = Append(inflight,
                   Request(longUrl, alias, parseValidityOrDefault(validityMinutes).num))
    /\ UNCHANGED <<phase, storageMode, storage, longUrl, alias, validityMinutes,
                   history, now>>

\* handleSubmit that clears the message but leaves the previous result shown
handleSubmit_KeepsResult ==
    /\ phase = "running"
    /\ errorMessage' = ValidationError(longUrl, validityMinutes)
    /\ IF ValidationError(longUrl, validityMinutes) # ""
       THEN UNCHANGED <<isLoading, inflight>>
       ELSE /\ isLoading' = TRUE
            /\ inflight' = Append(inflight,
                   Request(longUrl, alias, parseValidityOrDefault(validityMinutes).num))
    /\ UNCHANGED <<phase, storageMode, storage, longUrl, alias, validityMinutes,
                   history, now, shortUrl, expiresAt>>

\* handleSubmit that issues the request without setting the busy flag
handleSubmit_NoBusyFlag ==
    /\ phase = "running"
    /\ shortUrl' = Str(<<>>)
    /\ expiresAt' = JsNull
    /\ errorMessage' = ValidationError(longUrl, validityMinutes)
    /\ IF ValidationError(longUrl, validityMinutes) # ""
       THEN UNCHANGED inflight
       ELSE inflight' = Append(inflight,
                Request(longUrl, alias, parseValidityOrDefault(validityMinutes).num))
    /\ UNCHANGED <<phase, storageMode, storage, longUrl, alias, validityMinutes,
                   history, now, isLoading>>

handleSubmit ==
    /\ phase = "running"
    /\ shortUrl' = Str(<<>>)
    /\ expiresAt' = JsNull
    /\ errorMessage' = ValidationError(longUrl, validityMinutes)
    /\ IF ValidationError(longUrl, validityMinutes) # ""
       THEN UNCHANGED <<isLoading, inflight>>
       ELSE /\ isLoading' = TRUE
            /\ inflight' = Append(inflight,
                   Request(longUrl, alias, parseValidityOrDefault(validityMinutes).num))
    /\ UNCHANGED <<phase, storageMode, storage, longUrl, alias, validityMinutes,
                   history, now>>

(***************************************************************************)
(* The rest of handleSubmit, which runs when the fetch of a call settles:  *)
(* App.js:85-110.  Everything after the last await is one step.            *)
(***************************************************************************)
\* generatedShortUrl looking at short_url before shortUrl
generatedShortUrl_SnakeFirst(data) ==
    OrElse(OrElse(OrElse(data.short_url, data.shortUrl), data.short), Str(<<>>))

\* App.js:91
generatedShortUrl(data) ==
    OrElse(OrElse(OrElse(data.shortUrl, data.short_url), data.short), Str(<<>>))

\* App.js:92
serverExpiresAt(data) == OrElse(OrElse(data.expiresAt, data.expires_at), JsNull)

\* App.js:97
computedExpiry(data, minutes, t) ==
    IF Truthy(serverExpiresAt(data))
    THEN ToNumber(serverExpiresAt(data))
    ELSE Num(t + minutes * MsPerMinute)

\* Thrown not reading the body of a non-success response
Thrown_IgnoresBody(r) ==
    CASE r.kind = "reject" -> [threw |-> TRUE, message |-> r.message]
      [] r.kind = "notOk" -> [threw |-> TRUE, message |-> MsgHttpFallback]
      [] r.kind = "okNotJson" -> [threw |-> TRUE, message |-> r.message]
      [] OTHER ->
            IF ~Truthy(generatedShortUrl(r.data))
            THEN [threw |-> TRUE, message |-> MsgUnexpected]
            ELSE [threw |-> FALSE, message |-> ""]

\* the message of the error the try block throws (App.js:79-95), with threw
\* FALSE when it throws nothing
Thrown(r) ==
    CASE r.kind = "reject" -> [threw |-> TRUE, message |-> r.message]
      [] r.kind = "notOk" ->
            [threw |-> TRUE, message |-> IF r.text # "" THEN r.text ELSE MsgHttpFallback]
      [] r.kind = "okNotJson" -> [threw |-> TRUE, message |-> r.message]
      [] OTHER ->
            IF ~Truthy(generatedShortUrl(r.data))
            THEN [threw |-> TRUE, message |-> MsgUnexpected]
            ELSE [threw |-> FALSE, message |-> ""]

\* CaughtMessage without the fallback for an error that has no message
CaughtMessage_NoFallback(m) == m

\* App.js:107
CaughtMessage(m) == IF m # "" THEN m ELSE MsgGeneric

\* the entry of App.js:102
NewEntry(req, data, t) ==
    Entry(Trim(req.longUrl), generatedShortUrl(data), t,
          computedExpiry(data, req.minutes, t), req.minutes)

RemoveAt(seq, i) == SubSeq(seq, 1, i - 1) \o SubSeq(seq, i + 1, Len(seq))

\* handleSubmitSettled in which a fault of the write reaches the catch block
handleSubmitSettled_WriteFaultCaught(i, r) ==
    /\ phase = "running"
    /\ i \in 1..Len(inflight)
    /\ LET req == inflight[i]
       IN  IF Thrown(r).threw
           THEN /\ errorMessage' = CaughtMessage(Thrown(r).message)
                /\ UNCHANGED <<shortUrl, expiresAt, history, alias, storage, now>>
           ELSE /\ shortUrl' = generatedShortUrl(r.data)
                /\ expiresAt' = computedExpiry(r.data, req.minutes, now)
                /\ history' = Record(NewEntry(req, r.data, now), history)
                /\ storage' = Persist(Record(NewEntry(req, r.data, now), history),
                                      storage, storageMode)
                /\ alias' = <<>>
                /\ now' = now + 1
                /\ errorMessage' = IF storageMode = "ok" THEN errorMessage
                                   ELSE MsgGeneric
    /\ isLoading' = FALSE
    /\ inflight' = RemoveAt(inflight, i)
    /\ UNCHANGED <<phase, storageMode, longUrl, validityMinutes>>

\* handleSubmitSettled without the finally block: the busy flag is cleared
\* at the end of the try block only
handleSubmitSettled_NoFinally(i, r) ==
    /\ phase = "running"
    /\ i \in 1..Len(inflight)
    /\ LET req == inflight[i]
       IN  IF Thrown(r).threw
           THEN /\ errorMessage' = CaughtMessage(Thrown(r).message)
                /\ UNCHANGED <<shortUrl, expiresAt, history, alias, storage, now,
                               isLoading>>
           ELSE /\ shortUrl' = generatedShortUrl(r.data)
                /\ expiresAt' = computedExpiry(r.data, req.minutes, now)
                /\ history' = Record(NewEntry(req, r.data, now), history)
                /\ storage' = Persist(Record(NewEntry(req, r.data, now), history),
                                      storage, storageMode)
                /\ alias' = <<>>
                /\ now' = now + 1
                /\ isLoading' = FALSE
                /\ UNCHANGED errorMessage
    /\ inflight' = RemoveAt(inflight, i)
    /\ UNCHANGED <<phase, storageMode, longUrl, validityMinutes>>

\* handleSubmitSettled that resets the alias field in the finally block, that
\* is after a failure too
handleSubmitSettled_AlwaysResetsAlias(i, r) ==
    /\ phase = "running"
    /\ i \in 1..Len(inflight)
    /\ LET req == inflight[i]
       IN  IF Thrown(r).threw
           THEN /\ errorMessage' = CaughtMessage(Thrown(r).message)
                /\ UNCHANGED <<shortUrl, expiresAt, history, storage, now>>
           ELSE /\ shortUrl' = generatedShortUrl(r.data)
                /\ expiresAt' = computedExpiry(r.data, req.minutes, now)
                /\ history' = Record(NewEntry(req, r.data, now), history)
                /\ storage' = Persist(Record(NewEntry(req, r.data, now), history),
                                      storage, storageMode)
                /\ now' = now + 1
                /\ UNCHANGED errorMessage
    /\ alias' = <<>>
    /\ isLoading' = FALSE
    /\ inflight' = RemoveAt(inflight, i)
    /\ UNCHANGED <<phase, storageMode, longUrl, validityMinutes>>

handleSubmitSettled(i, r) ==
    /\ phase = "running"
    /\ i \in 1..Len(inflight)
    /\ LET req == inflight[i]
       IN  IF Thrown(r).threw
           THEN /\ errorMessage' = CaughtMessage(Thrown(r).message)
                /\ UNCHANGED <<shortUrl, expiresAt, history, alias, storage, now>>
           ELSE /\ shortUrl' = generatedShortUrl(r.data)
                /\ expiresAt' = computedExpiry(r.data, req.minutes, now)
                /\ history' = Record(NewEntry(req, r.data, now), history)
                /\ storage' = Persist(Record(NewEntry(req, r.data, now), history),
                                      storage, storageMode)
                /\ alias' = <<>>
                /\ now' = now + 1
                /\ UNCHANGED errorMessage
    /\ isLoading' = FALSE
    /\ inflight' = RemoveAt(inflight, i)
    /\ UNCHANGED <<phase, storageMode, longUrl, validityMinutes>>

\* App.js:125-127, and the effect that follows the change of history
handleClearHistory ==
    /\ phase = "running"
    /\ history' = <<>>
    /\ storage' = Persist(<<>>, storage, storageMode)
    /\ UNCHANGED <<phase, storageMode, longUrl, alias, validityMinutes, isLoading,
                   errorMessage, shortUrl, expiresAt, inflight, now>>

\* entries recorded so far (the clock advances by one at every reading, and
\* only a successful submission reads it) and fetches outstanding
Submitted == (now - T0) + Len(inflight)

\* the next handleSubmit call ends before the fetch, or fewer than max calls
\* have succeeded or are waiting for their fetch
WithinBudget(max) ==
    ValidationError(longUrl, validityMinutes) = "" => Submitted < max

Next ==
    \/ Mount
    \/ \E v \in LongUrlInputs :
          <<v, alias, validityMinutes>> \in Forms /\ SetLongUrl(v)
    \/ \E v \in AliasInputs :
          <<longUrl, v, validityMinutes>> \in Forms /\ SetAlias(v)
    \/ \E v \in ValidityInputs :
          <<longUrl, alias, v>> \in Forms /\ SetValidityMinutes(v)
    \/ (WithinBudget(MaxSubmits) /\ handleSubmit)
    \/ \E i \in 1..MaxSubmits, r \in CoreResponses : handleSubmitSettled(i, r)
    \/ handleClearHistory

\* every form of Forms, against one response of each kind
Spec == Init /\ [][Next]_vars

NextServer ==
    \/ Mount
    \/ \E v \in LongUrlInputs :
          <<v, alias, validityMinutes>> \in ServerForms /\ SetLongUrl(v)
    \/ \E v \in AliasInputs :
          <<longUrl, v, validityMinutes>> \in ServerForms /\ SetAlias(v)
    \/ \E v \in ValidityInputs :
          <<longUrl, alias, v>> \in ServerForms /\ SetValidityMinutes(v)
    \/ (WithinBudget(MaxSubmits) /\ handleSubmit)
    \/ \E i \in 1..MaxSubmits, r \in Responses : handleSubmitSettled(i, r)
    \/ handleClearHistory

\* every response of Responses, against the forms of ServerForms
ServerSpec == Init /\ [][NextServer]_vars

NextValidity ==
    \/ Mount
    \/ \E v \in LongUrlInputs :
          <<v, alias, validityMinutes>> \in ValidityForms /\ SetLongUrl(v)
    \/ \E v \in AliasInputs :
          <<longUrl, v, validityMinutes>> \in ValidityForms /\ SetAlias(v)
    \/ \E v \in ValidityTexts :
          <<longUrl, alias, v>> \in ValidityForms /\ SetValidityMinutes(v)
    \/ (WithinBudget(MaxSubmits) /\ handleSubmit)
    \/ \E i \in 1..MaxSubmits, r \in CoreResponses : handleSubmitSettled(i, r)
    \/ handleClearHistory

\* every text of ValidityTexts in the validity field
ValiditySpec == Init /\ [][NextValidity]_vars

\* submissions the specifications below go through, one more than Spec, so
\* that a second call can start while the fetch of the first is outstanding
MaxOverlap == MaxSubmits + 1

\* handleSubmit called at any time, also while a fetch is outstanding (the
\* handler itself does not look at the busy flag)
NextOverlap ==
    \/ Mount
    \/ \E v \in LongUrlInputs :
          <<v, alias, validityMinutes>> \in ServerForms /\ SetLongUrl(v)
    \/ \E v \in AliasInputs :
          <<longUrl, v, validityMinutes>> \in ServerForms /\ SetAlias(v)
    \/ \E v \in ValidityInputs :
          <<longUrl, alias, v>> \in ServerForms /\ SetValidityMinutes(v)
    \/ (WithinBudget(MaxOverlap) /\ handleSubmit)
    \/ \E i \in 1..MaxOverlap, r \in CoreResponses : handleSubmitSettled(i, r)
    \/ handleClearHistory

OverlapSpec == Init /\ [][NextOverlap]_vars

\* handleSubmit called through the form only: the submit button is disabled
\* while the busy flag is set (App.js:169), and a form whose submit button is
\* disabled is not submitted
NextSerial ==
    \/ Mount
    \/ \E v \in LongUrlInputs :
          <<v, alias, validityMinutes>> \in Forms /\ SetLongUrl(v)
    \/ \E v \in AliasInputs :
          <<longUrl, v, validityMinutes>> \in Forms /\ SetAlias(v)
    \/ \E v \in ValidityInputs :
          <<longUrl, alias, v>> \in Forms /\ SetValidityMinutes(v)
    \/ (~isLoading /\ WithinBudget(MaxOverlap) /\ handleSubmit)
    \/ \E i \in 1..MaxOverlap, r \in CoreResponses : handleSubmitSettled(i, r)
    \/ handleClearHistory

SerialSpec == Init /\ [][NextSerial]_vars

\* Spec with a network whose every fetch settles at last: a fetch that is
\* outstanding gets one of the responses
FairSpec ==
    /\ Init
    /\ [][Next]_vars
    /\ WF_vars(\E i \in 1..MaxSubmits, r \in CoreResponses : handleSubmitSettled(i, r))

TypeOK ==
    /\ phase \in {"unmounted", "running", "crashed"}
    /\ isLoading \in BOOLEAN
    /\ Len(inflight) <= MaxOverlap

(***************************************************************************)
(* The claims.                                                             *)
(***************************************************************************)
IsBlank(s) == \A i \in 1..Len(s) : s[i] \in {" ", "\t", "\n"}

\* the responses of each kind
OkResponses == {r \in Responses : r.kind = "ok"}
NotOkResponses == {r \in Responses : r.kind = "notOk"}

\* a step in which a fetch settles
Settles == Len(inflight') < Len(inflight)

\* C1 (as stated): in every state, right after the startup load included,
\* the history holds at most 20 entries.
C1_HistoryAtMostCap == Len(history) <= HistoryCap

\* C2: a step that records an entry (the only step that reads the clock)
\* leaves the first 20 elements of the new entry followed by the old history:
\* the new entry in front, the older entries behind it in their order, and
\* nothing dropped but what falls beyond the 20th place.
C2_RecordPrependsAndTruncates ==
    [][now' = now + 1 =>
          /\ Len(history') =
                IF Len(history) + 1 <= HistoryCap THEN Len(history) + 1 ELSE HistoryCap
          /\ history'[1].createdAt = now
          /\ history'[1].shortUrl = shortUrl'
          /\ history'[1].expiresAt = expiresAt'
          /\ \A i \in 2..Len(history') : history'[i] = history[i - 1]]_vars

\* a full history took a new entry: the oldest entry is gone, the others moved
\* back by one
C2_Witness ==
    /\ phase = "running"
    /\ Len(history) = HistoryCap
    /\ history[1].createdAt = T0
    /\ history[2] = OldEntry(1)
    /\ history[HistoryCap] = OldEntry(HistoryCap - 1)

\* C3: a submit with an empty or whitespace-only long URL issues no request
\* and ends with the missing-URL message, which is not the message a
\* non-blank ill-formed URL ends with.
C3_MissingUrlFailsFast ==
    [][handleSubmit =>
          /\ IsBlank(longUrl) =>
                /\ inflight' = inflight
                /\ errorMessage' = MsgMissingUrl
                /\ errorMessage' # MsgInvalidUrl
          /\ (~IsBlank(longUrl) /\ ~isValidHttpUrl(Trim(longUrl))) =>
                errorMessage' # MsgMissingUrl]_vars

C3_Witness ==
    /\ longUrl = <<" ">>
    /\ errorMessage = MsgMissingUrl
    /\ inflight = <<>>
    /\ ~isLoading

\* C4: a submit whose trimmed long URL isValidHttpUrl rejects, or whose
\* validity resolves to null, issues no request, leaves the busy flag alone
\* and ends with the invalid-URL or the invalid-validity message; the checks
\* come in the order missing URL, invalid URL, invalid validity.
C4_InvalidInputFailsFast ==
    [][handleSubmit =>
          /\ IsBlank(longUrl) => errorMessage' = MsgMissingUrl
          /\ (~IsBlank(longUrl) /\ ~isValidHttpUrl(Trim(longUrl))) =>
                /\ errorMessage' = MsgInvalidUrl
                /\ inflight' = inflight
                /\ isLoading' = isLoading
          /\ (/\ ~IsBlank(longUrl)
              /\ isValidHttpUrl(Trim(longUrl))
              /\ parseValidityOrDefault(validityMinutes) = JsNull) =>
                /\ errorMessage' = MsgInvalidValidity
                /\ inflight' = inflight
                /\ isLoading' = isLoading]_vars

\* an ill-formed URL together with an invalid validity ended with the
\* invalid-URL message
C4_Witness ==
    /\ longUrl = UrlFtp
    /\ validityMinutes = <<"0">>
    /\ errorMessage = MsgInvalidUrl
    /\ inflight = <<>>
    /\ ~isLoading

\* the first of the values that is a non-empty string, Undefined if none is
RECURSIVE FirstNonEmpty(_)
FirstNonEmpty(values) ==
    IF values = <<>> THEN Undefined
    ELSE IF Head(values).type = "string" /\ Head(values).str # <<>> THEN Head(values)
    ELSE FirstNonEmpty(Tail(values))

ShortUrlKeys(data) == <<data.shortUrl, data.short_url, data.short>>

C8_HttpErrorMessage ==
    [][Settles => \A i \in 1..Len(inflight), r \in NotOkResponses :
          handleSubmitSettled(i, r) =>
              /\ errorMessage' = IF r.text = "" THEN MsgHttpFallback ELSE r.text
              /\ UNCHANGED <<shortUrl, expiresAt, history, storage>>]_vars

C8_Witness ==
    /\ errorMessage = "alias taken"
    /\ shortUrl = Str(<<>>)
    /\ inflight = <<>>
    /\ ~isLoading

\* an expiry key as the interface describes it: absent, or a number
NumberOrAbsent(v) == v.type \in {"number", "undefined"}

\* C6 (as stated), for the responses whose expiry keys are absent or numbers:
\* when a success response is settled and surfaces a result, expiresAt is the
\* value under expiresAt if the response has that key, else the value under
\* expires_at if it has that one, else the clock plus the validity minutes.
C6_ServerExpiryWins ==
    [][Settles => \A i \in 1..Len(inflight), r \in OkResponses :
          (/\ NumberOrAbsent(r.data.expiresAt)
           /\ NumberOrAbsent(r.data.expires_at)
           /\ handleSubmitSettled(i, r)
           /\ ~Thrown(r).threw) =>
              expiresAt' =
                  IF r.data.expiresAt # Undefined THEN r.data.expiresAt
                  ELSE IF r.data.expires_at # Undefined THEN r.data.expires_at
                  ELSE Num(now + inflight[i].minutes * 60000)]_vars

\* C7 (as stated): whenever a short URL is surfaced, expiresAt is a number,
\* and so is the expiresAt of every entry of the history.
C7_ExpiryIsConcrete ==
    /\ Truthy(shortUrl) => expiresAt.type = "number"
    /\ \A i \in 1..Len(history) : history[i].expiresAt.type = "number"

\* C9 (as stated): whatever the store holds, the startup load returns a
\* sequence of entries and the first render succeeds.
C9_StartupNeverFails == phase # "crashed"

\* C10 (as stated): while localStorage works, a load of the persisted blob
\* returns the in-memory history, entry by entry and field by field.
C10_BlobMirrorsHistory ==
    (phase = "running" /\ storageMode = "ok") =>
        /\ Load(storage, storageMode).isArray
        /\ Load(storage, storageMode).items = history

\* C11: while every write to the store fails, a step that records an entry
\* still surfaces its short URL and puts the entry in front of the history,
\* a clear still empties the history, neither changes the error message, and
\* the blob stays what it was.
C11_WriteFaultSwallowed ==
    [][storageMode # "ok" =>
          /\ now' = now + 1 =>
                /\ errorMessage' = errorMessage
                /\ Truthy(shortUrl')
                /\ history' = Record(history'[1], history)
                /\ history'[1].shortUrl = shortUrl'
                /\ storage' = storage
          /\ handleClearHistory =>
                /\ history' = <<>>
                /\ errorMessage' = errorMessage
                /\ storage' = storage]_vars

\* a result is surfaced and recorded with no error, and the blob still holds
\* the history of the earlier session
C11_Witness ==
    /\ storageMode = "denied"
    /\ Truthy(shortUrl)
    /\ errorMessage = ""
    /\ Len(history) = 1
    /\ history[1].shortUrl = shortUrl
    /\ storage = Stringify(OldHistory(HistoryCap))

\* C12: when every fetch settles at last, a busy flag that is set is cleared
\* at last, whatever the outcome; with the flag clear the submit control is
\* enabled again.
C12_BusyEventuallyCleared == isLoading ~> ~isLoading

\* a submission that failed after its fetch is back at rest: no fetch
\* outstanding, the flag clear, its message shown
C12_Witness ==
    /\ phase = "running"
    /\ errorMessage = "Failed to fetch"
    /\ inflight = <<>>
    /\ ~isLoading

\* C13: the body of every request issued is the trimmed long URL and the
\* resolved minutes, and has an alias key exactly when the alias field is not
\* blank, its value then being the trimmed alias, never the empty string.
C13_PayloadShape ==
    [][Len(inflight') > Len(inflight) =>
          LET payload == inflight'[Len(inflight')].payload
          IN  /\ payload.url = Trim(longUrl)
              /\ payload.validity = parseValidityOrDefault(validityMinutes).num
              /\ payload.hasAlias <=> ~IsBlank(alias)
              /\ payload.hasAlias => (payload.alias = Trim(alias) /\ payload.alias # <<>>)]_vars

\* a request went out with a padded URL and a blank alias field: the body has
\* the bare URL and no alias key
C13_Witness ==
    /\ Len(inflight) = 1
    /\ longUrl = UrlPadded
    /\ alias = <<" ">>
    /\ inflight[1].payload.url = UrlHttp
    /\ ~inflight[1].payload.hasAlias

\* what C14 says the resolution of a validity text is: 30 for a blank text,
\* the number for a text that is a whole number greater than 0 written in
\* base 10 (read generously: a sign, a fraction part of zeros and an exponent
\* are allowed), null for every other text
ClaimedValidity(raw) ==
    LET s == Trim(raw)
        negative == s # <<>> /\ Head(s) = "-"
        body == IF s # <<>> /\ Head(s) \in {"+", "-"} THEN Tail(s) ELSE s
        v == UnsignedDecimal(body)
    IN  IF IsBlank(raw) THEN Num(30)
        ELSE IF v.type = "number" /\ ~negative /\ v.num > 0 THEN v
        ELSE JsNull

\* C14 (as stated): the validity field resolves to 30 when blank, to its
\* value when it is a base-10 whole number greater than 0, and to null for
\* every other text.
C14_ValidityResolution ==
    parseValidityOrDefault(validityMinutes) = ClaimedValidity(validityMinutes)

\* C15: with calls of handleSubmit that overlap, every step that records an
\* entry, whichever outstanding call it belongs to, puts the entry of that
\* call in front of everything recorded so far and loses none of it (short of
\* the 20th place); a clear empties the history and leaves the outstanding
\* calls alone, so what they record later is kept.
C15_NoLostUpdate ==
    [][/\ now' = now + 1 =>
             /\ history' = Slice(<<history'[1]>> \o history, HistoryCap)
             /\ history'[1].createdAt = now
             /\ \E i \in 1..Len(inflight) :
                   /\ inflight' = RemoveAt(inflight, i)
                   /\ history'[1].longUrl = Trim(inflight[i].longUrl)
                   /\ history'[1].validityMinutes = inflight[i].minutes
       /\ handleClearHistory => (history' = <<>> /\ inflight' = inflight)]_vars

\* two calls with different validity succeeded: both entries are there, the
\* one recorded later in front
C15_Witness ==
    /\ Len(history) = 2
    /\ history[1].createdAt = T0 + 1
    /\ history[2].createdAt = T0
    /\ history[1].validityMinutes = DefaultValidity
    /\ history[2].validityMinutes = 5
    /\ inflight = <<>>

\* a step of handleSubmit up to the fetch: no fetch settles, and the message,
\* the result, the busy flag or the outstanding fetches change (no other
\* handler touches these)
Submits ==
    /\ Len(inflight') >= Len(inflight)
    /\ <<errorMessage', shortUrl', expiresAt', isLoading', inflight'>>
          # <<errorMessage, shortUrl, expiresAt, isLoading, inflight>>

ValidationMessages == {MsgMissingUrl, MsgInvalidUrl, MsgInvalidValidity}

\* C16: with submits made through the form, every submit leaves the short
\* URL empty and expiresAt null and replaces the message by nothing (a request
\* goes out) or by the message of its own failed check; and a call that fails
\* after its fetch ends with the short URL still empty and expiresAt still
\* null, so no earlier result is shown next to its message.
C16_SubmitClearsPrevious ==
    [][/\ Submits =>
             /\ shortUrl' = Str(<<>>)
             /\ expiresAt' = JsNull
             /\ Len(inflight') > Len(inflight) => errorMessage' = ""
             /\ inflight' = inflight => errorMessage' \in ValidationMessages
       /\ (Settles /\ now' = now) =>
             /\ shortUrl' = Str(<<>>)
             /\ expiresAt' = JsNull
             /\ errorMessage' # ""]_vars

\* a call succeeded in this session and a later one failed after its fetch:
\* the entry of the first is in the history, its result is no longer shown
C16_Witness ==
    /\ history # <<>>
    /\ history[1].createdAt = T0
    /\ errorMessage = "Failed to fetch"
    /\ shortUrl = Str(<<>>)
    /\ expiresAt = JsNull
    /\ inflight = <<>>

\* C17: a step that records an entry empties the alias field; a call that
\* fails after its fetch, and a submit up to its fetch (a failed check
\* included), leave the alias field as it is; none of these steps changes the
\* long URL field or the validity field.
C17_FieldsAfterSubmission ==
    [][/\ now' = now + 1 => alias' = <<>>
       /\ (Settles /\ now' = now) => alias' = alias
       /\ Submits => alias' = alias
       /\ (Settles \/ Submits) =>
             (longUrl' = longUrl /\ validityMinutes' = validityMinutes)]_vars

\* a call sent with an alias failed: the alias is still in its field
C17_Witness ==
    /\ alias = <<" ", "a", " ">>
    /\ errorMessage = "alias taken"
    /\ longUrl = UrlPadded
    /\ inflight = <<>>
    /\ ~isLoading

\* C18: once the page runs, with submits made through the form, the history
\* changes only in a step that records an entry, which puts one entry with a
\* short URL in front, or in a clear; a submit that fails a check and a call
\* that fails after its fetch (non-success status, body that is no JSON or
\* has no short URL, fetch rejected) leave the history and the blob as they
\* are and end with a message and with no short URL shown.
C18_OnlySuccessChangesHistory ==
    [][phase = "running" =>
          /\ history' # history =>
                \/ /\ now' = now + 1
                   /\ history' = Slice(<<history'[1]>> \o history, HistoryCap)
                   /\ Truthy(history'[1].shortUrl)
                \/ handleClearHistory
          /\ (Submits /\ inflight' = inflight) =>
                /\ history' = history /\ storage' = storage
                /\ errorMessage' \in ValidationMessages
                /\ shortUrl' = Str(<<>>) /\ expiresAt' = JsNull
          /\ (Settles /\ now' = now) =>
                /\ history' = history /\ storage' = storage
                /\ errorMessage' # ""
                /\ shortUrl' = Str(<<>>) /\ expiresAt' = JsNull]_vars

\* a fetch was rejected with an error that has no message, after a history of
\* 20 entries was loaded: the fallback message is shown, nothing else, and
\* history and blob are what the load left
C18_Witness ==
    /\ errorMessage = MsgGeneric
    /\ shortUrl = Str(<<>>)
    /\ history = OldHistory(HistoryCap)
    /\ storage = Stringify(OldHistory(HistoryCap))
    /\ inflight = <<>>
    /\ ~isLoading

\* C19: with submits made through the form, a message and a short URL are
\* never shown together, and a short URL shown over a history that is not
\* empty is, with its expiresAt, that of the first entry of the history.
C19_ResultMatchesFrontEntry ==
    /\ ~(errorMessage # "" /\ Truthy(shortUrl))
    /\ (Truthy(shortUrl) /\ history # <<>>) =>
          (history[1].shortUrl = shortUrl /\ history[1].expiresAt = expiresAt)

\* the second of two calls made one after the other succeeded: its result is
\* shown and is the first entry, no message
C19_Witness ==
    /\ Len(history) >= 2
    /\ history[1].createdAt = T0 + 1
    /\ Truthy(shortUrl)
    /\ history[1].shortUrl = shortUrl
    /\ errorMessage = ""
    /\ inflight = <<>>

\* at most one fetch is outstanding, and the busy flag is set while one is
AtMostOneAndBusy == Len(inflight) <= 1 /\ (inflight # <<>> => isLoading)

\* C20: as long as handleSubmit is called only with the busy flag clear,
\* which is what the disabled submit button allows, at most one fetch is
\* outstanding and the busy flag is set while it is: every step, a submit
\* made with the flag clear included, keeps that; only a submit made with
\* the flag set can break it.
C20_BusyGuardsOneRequest ==
    [][(AtMostOneAndBusy /\ (Submits => ~isLoading)) => AtMostOneAndBusy']_vars

\* handleSubmit was called while a fetch was outstanding, and the first
\* completion cleared the busy flag: a fetch is still outstanding, the flag is
\* clear and the result of the completed call is shown
C20_Witness ==
    /\ Len(inflight) = 1
    /\ ~isLoading
    /\ Truthy(shortUrl)
    /\ history # <<>>
    /\ history[1].createdAt = T0

====
